---- MODULE Spec2Model ----
(***************************************************************************)
(* Graph construction of the DCGAN Generator and Discriminator             *)
(* (src/dcgan.py).  A tensor is the record of its static shape, in the     *)
(* layout of its data_format, and of the operations that produced it.      *)
(* The variable store of tf.variable_scope is the set `variables`.         *)
(***************************************************************************)
EXTENDS Integers, Sequences, FiniteSets, TLC

(* ------------------------------ bounds --------------------------------- *)
MaxStages == 2
MaxStride == 2

BlockCounts == {1, 2}
ImageSizes == {<<4, 8>>, <<6, 12>>}
FilterSet == {3, 8}
VersionSet == {1, 2, 3}
BatchSizes == {2}
LatentDims == {3}
ConvParams == {[kernel_size |-> 3, strides |-> 1]}

(* --------------------------- integer helpers --------------------------- *)
\* the single element of a singleton set: Value({F(x) : x \in {e}}) is F(e) with e
\* evaluated once, the way Python binds a local variable
Value(S) == CHOOSE v \in S : TRUE

RECURSIVE pow2(_)
pow2(n) == IF n = 0 THEN 1 ELSE 2 * pow2(n - 1)

\* mutant of shr: the Generator shifts left, as the Discriminator does
shr_as_shl(x, i) == x * pow2(i)

\* Python's x >> i on non-negative ints
RECURSIVE shr(_, _)
shr(x, i) == IF i = 0 THEN x ELSE shr(x \div 2, i - 1)

\* Python's x << i
RECURSIVE shl(_, _)
shl(x, i) == IF i = 0 THEN x ELSE shl(x * 2, i - 1)

\* output length of a strided window with padding="same": ceil(n / s)
same_padding(n, s) == (n + s - 1) \div s

\* functools.reduce(operator.mul, xs) for a non-empty list xs
RECURSIVE reduce_mul(_)
reduce_mul(xs) == IF Len(xs) = 1 THEN xs[1] ELSE reduce_mul(SubSeq(xs, 1, Len(xs) - 1)) * xs[Len(xs)]

(* ------------------------------ tensors -------------------------------- *)
AxisH(data_format) == IF data_format = "channels_first" THEN 3 ELSE 2
AxisW(data_format) == IF data_format = "channels_first" THEN 4 ELSE 3
AxisC(data_format) == IF data_format = "channels_first" THEN 2 ELSE 4

Shape4(n, h, w, c, data_format) ==
    IF data_format = "channels_first" THEN <<n, c, h, w>> ELSE <<n, h, w, c>>

Channels(t, data_format) == t.shape[AxisC(data_format)]

\* shape of a strided window operation with padding="same" and `filters` channels
WindowShape(shape, filters, strides, data_format) ==
    Shape4(shape[1], same_padding(shape[AxisH(data_format)], strides),
           same_padding(shape[AxisW(data_format)], strides), filters, data_format)

dense(inputs, units) ==
    [inputs EXCEPT !.shape = <<@[1], units>>, !.ops = Append(@, "dense")]

conv2d(inputs, filters, kernel_size, strides, data_format) ==
    [inputs EXCEPT !.shape = WindowShape(@, filters, strides, data_format),
                   !.ops = Append(@, IF kernel_size = 1 THEN "conv1x1" ELSE "conv")]

leaky_relu(inputs) == [inputs EXCEPT !.ops = Append(@, "leaky_relu")]

tanh(inputs) == [inputs EXCEPT !.ops = Append(@, "tanh")]

\* mutant of average_pooling2d: the pooling window moves by 1, not by `strides`
average_pooling2d_unit_stride(inputs, pool_size, strides, data_format) ==
    [inputs EXCEPT !.shape = WindowShape(@, @[AxisC(data_format)], 1, data_format),
                   !.ops = Append(@, "average_pooling2d")]

average_pooling2d(inputs, pool_size, strides, data_format) ==
    [inputs EXCEPT !.shape = WindowShape(@, @[AxisC(data_format)], strides, data_format),
                   !.ops = Append(@, "average_pooling2d")]

BroadcastDim(x, y) == IF x = y THEN x ELSE IF x = 1 THEN y ELSE IF y = 1 THEN x ELSE -1

Broadcast(a, b) == [k \in 1..Len(a) |-> BroadcastDim(a[k], b[k])]

\* inputs += shortcut : elementwise add with numpy broadcasting
add(inputs, shortcut) ==
    [inputs EXCEPT !.shape = Broadcast(@, shortcut.shape), !.ops = Append(@, "add")]

(* ------------------- collaborators (resnet, util) ---------------------- *)
\* resnet.Model.projection_shortcut: one 1x1 convolution, no activation
projection_shortcut(inputs, filters, strides, data_format) ==
    [inputs EXCEPT !.shape = WindowShape(@, filters, strides, data_format),
                   !.ops = Append(@, "projection")]

\* util.chunk_images reshapes (B, units) to (B, H0, W0, filters): the element counts
\* must agree
chunk_fits(units, image_size, filters) == units = filters * image_size[1] * image_size[2]

chunk_images(inputs, image_size, filters, data_format) ==
    [inputs EXCEPT !.shape = Shape4(@[1], image_size[1], image_size[2], filters, data_format),
                   !.ops = Append(@, "chunk_images")]

up_sampling2d(factor, data_format, inputs) ==
    [inputs EXCEPT !.shape = Shape4(@[1], @[AxisH(data_format)] * factor,
                                    @[AxisW(data_format)] * factor, @[AxisC(data_format)],
                                    data_format),
                   !.ops = Append(@, "up_sampling2d")]

global_average_pooling2d(data_format, inputs) ==
    [inputs EXCEPT !.shape = <<@[1], @[AxisC(data_format)]>>,
                   !.ops = Append(@, "global_average_pooling2d")]

(* --------------------------- residual blocks --------------------------- *)
\* Each block returns its output together with its input and the two operands of
\* the additive merge.
Block(in, shortcut, main, out) == [in |-> in, shortcut |-> shortcut, main |-> main, out |-> out]

building_block_v1(inputs, filters, strides, projection, data_format) ==
    LET shortcut == IF projection THEN projection_shortcut(inputs, filters, strides, data_format)
                    ELSE inputs
        h1 == conv2d(inputs, filters, 3, strides, data_format)
        h2 == leaky_relu(h1)
        h3 == conv2d(h2, filters, 3, 1, data_format)
        h4 == add(h3, shortcut)
        h5 == leaky_relu(h4)
    IN Block(inputs, shortcut, h3, h5)

\* mutant of building_block_v2: the projection reads the un-activated input
building_block_v2_raw_projection(inputs, filters, strides, projection, data_format) ==
    LET h0 == leaky_relu(inputs)
        shortcut == IF projection THEN projection_shortcut(inputs, filters, strides, data_format)
                    ELSE inputs
        h1 == conv2d(h0, filters, 3, strides, data_format)
        h2 == leaky_relu(h1)
        h3 == conv2d(h2, filters, 3, 1, data_format)
        h4 == add(h3, shortcut)
    IN Block(inputs, shortcut, h3, h4)

building_block_v2(inputs, filters, strides, projection, data_format) ==
    LET h0 == leaky_relu(inputs)
        shortcut == IF projection THEN projection_shortcut(h0, filters, strides, data_format)
                    ELSE inputs
        h1 == conv2d(h0, filters, 3, strides, data_format)
        h2 == leaky_relu(h1)
        h3 == conv2d(h2, filters, 3, 1, data_format)
        h4 == add(h3, shortcut)
    IN Block(inputs, shortcut, h3, h4)

\* mutant of bottleneck_block_v1: the projection keeps `filters` channels
bottleneck_block_v1_narrow_projection(inputs, filters, strides, projection, data_format) ==
    LET shortcut == IF projection THEN projection_shortcut(inputs, filters, strides, data_format)
                    ELSE inputs
        h1 == conv2d(inputs, filters, 1, 1, data_format)
        h2 == leaky_relu(h1)
        h3 == conv2d(h2, filters, 3, strides, data_format)
        h4 == leaky_relu(h3)
        h5 == conv2d(h4, shl(filters, 2), 1, 1, data_format)
        h6 == add(h5, shortcut)
        h7 == leaky_relu(h6)
    IN Block(inputs, shortcut, h5, h7)

bottleneck_block_v1(inputs, filters, strides, projection, data_format) ==
    LET shortcut == IF projection THEN projection_shortcut(inputs, shl(filters, 2), strides, data_format)
                    ELSE inputs
        h1 == conv2d(inputs, filters, 1, 1, data_format)
        h2 == leaky_relu(h1)
        h3 == conv2d(h2, filters, 3, strides, data_format)
        h4 == leaky_relu(h3)
        h5 == conv2d(h4, shl(filters, 2), 1, 1, data_format)
        h6 == add(h5, shortcut)
        h7 == leaky_relu(h6)
    IN Block(inputs, shortcut, h5, h7)

bottleneck_block_v2(inputs, filters, strides, projection, data_format) ==
    LET h0 == leaky_relu(inputs)
        shortcut == IF projection THEN projection_shortcut(h0, shl(filters, 2), strides, data_format)
                    ELSE inputs
        h1 == conv2d(h0, filters, 1, 1, data_format)
        h2 == leaky_relu(h1)
        h3 == conv2d(h2, filters, 3, strides, data_format)
        h4 == leaky_relu(h3)
        h5 == conv2d(h4, shl(filters, 2), 1, 1, data_format)
        h6 == add(h5, shortcut)
    IN Block(inputs, shortcut, h5, h6)

\* the conditional expression that picks block_fn in both __call__ methods
select_block_fn(bottleneck, version) ==
    IF bottleneck
    THEN (IF version = 1 THEN "bottleneck_block_v1" ELSE "bottleneck_block_v2")
    ELSE (IF version = 1 THEN "building_block_v1" ELSE "building_block_v2")

\* shape of tensor t and the operations applied to it since tensor in
Since(t, in) == [shape |-> t.shape, ops |-> SubSeq(t.ops, Len(in.ops) + 1, Len(t.ops))]

\* what the graph keeps of a block: its output, the shape of its input, and the
\* operands of the merge and the block's own operations relative to its input
Unit(b) == [in |-> b.in.shape, shortcut |-> Since(b.shortcut, b.in), main |-> Since(b.main, b.in),
            tail |-> Since(b.out, b.in).ops, out |-> b.out]

\* block_fn(inputs, filters, strides, projection_shortcut, data_format, training)
call_block_fn(block_fn, inputs, filters, strides, projection, data_format) ==
    Value({Unit(b) : b \in {
        CASE block_fn = "building_block_v1" -> building_block_v1(inputs, filters, strides, projection, data_format)
          [] block_fn = "building_block_v2" -> building_block_v2(inputs, filters, strides, projection, data_format)
          [] block_fn = "bottleneck_block_v1" -> bottleneck_block_v1(inputs, filters, strides, projection, data_format)
          [] block_fn = "bottleneck_block_v2" -> bottleneck_block_v2(inputs, filters, strides, projection, data_format)}})

IsBottleneck(block_fn) == block_fn \in {"bottleneck_block_v1", "bottleneck_block_v2"}

\* channel depth a block of this kind produces: filters, or filters * 4
block_out_filters(block_fn, filters) == IF IsBottleneck(block_fn) THEN filters * 4 ELSE filters

\* units 1..N-1 of a stage: stride 1, no projection
RECURSIVE block_units(_, _, _, _, _)
block_units(units, block_fn, blocks, filters, data_format) ==
    Value({IF Len(done) >= blocks THEN done
           ELSE block_units(Append(done, call_block_fn(block_fn, done[Len(done)].out, filters, 1,
                                                       FALSE, data_format)),
                            block_fn, blocks, filters, data_format) : done \in {units}})

\* resnet.Model.block_layer: unit 0 takes the stage stride and projects when the
\* stride or the channel depth changes; the result is the list of the units.
block_layer(inputs, block_fn, blocks, filters, strides, data_format) ==
    LET needs_projection == strides # 1 \/
                            block_out_filters(block_fn, filters) # Channels(inputs, data_format)
    IN block_units(<<call_block_fn(block_fn, inputs, filters, strides, needs_projection, data_format)>>,
                   block_fn, blocks, filters, data_format)

LayerOut(layer) == layer[Len(layer)].out

(* ------------------------------ Generator ------------------------------ *)
Generator_init(image_size, filters, bottleneck, version, block_params, final_conv_param, channels_first) ==
    [image_size |-> image_size, filters |-> filters, bottleneck |-> bottleneck, version |-> version,
     block_params |-> block_params, final_conv_param |-> final_conv_param,
     channels_first |-> channels_first,
     data_format |-> IF channels_first THEN "channels_first" ELSE "channels_last"]

Generator_scope == "generator"

\* mutant of Generator_units: the second division is missing
Generator_units_single_division(filters, image_size, strides_product) ==
    ((filters * image_size[1]) \div strides_product) * image_size[2]

\* width of the dense projection: Python evaluates * and // left to right
Generator_units(filters, image_size, strides_product) ==
    (((filters * image_size[1]) \div strides_product) * image_size[2]) \div strides_product

Stage(i, filters, layer, out) == [i |-> i, filters |-> filters, layer |-> layer, out |-> out]

\* the loop over enumerate(self.block_params); k = i + 1
RECURSIVE Generator_stages(_, _, _, _)
Generator_stages(self, inputs, k, stages) ==
    IF k > Len(self.block_params) THEN stages
    ELSE Value({Value({Generator_stages(self, up, k + 1,
                                        Append(stages, Stage(k - 1, shr(self.filters, k - 1), layer, up))) :
                       up \in {up_sampling2d(2, self.data_format, LayerOut(layer))}}) :
                layer \in {block_layer(inputs, select_block_fn(self.bottleneck, self.version),
                                       self.block_params[k].blocks, shr(self.filters, k - 1),
                                       self.block_params[k].strides, self.data_format)}})

Failure(error) == [status |-> error, units |-> 0, stages |-> <<>>, head |-> <<>>, outputs |-> <<>>]

Result(units, stages, head, outputs) ==
    [status |-> "ok", units |-> units, stages |-> stages, head |-> head, outputs |-> outputs]

Generator_tail(self, units, head, stages) ==
    LET h4 == stages[Len(stages)].out
        h5 == IF self.version = 2 THEN leaky_relu(h4) ELSE h4
        h6 == conv2d(h5, 3, self.final_conv_param.kernel_size, self.final_conv_param.strides,
                     self.data_format)
        h7 == tanh(h6)
    IN Result(units, stages, head, h7)

Generator_body(self, inputs, strides_product) ==
    LET units == Generator_units(self.filters, self.image_size, strides_product)
        h1 == dense(inputs, units)
        size0 == <<self.image_size[1] \div strides_product, self.image_size[2] \div strides_product>>
        h2 == chunk_images(h1, size0, self.filters, self.data_format)
        h3 == IF self.version = 1 THEN leaky_relu(h2) ELSE h2
    IN IF ~chunk_fits(units, size0, self.filters)
       THEN Failure("InvalidArgumentError")
       ELSE Value({Value({Generator_tail(self, units, head, stages) :
                          stages \in {Generator_stages(self, head, 1, <<>>)}}) : head \in {h3}})

Generator_call(self, inputs) ==
    IF Len(self.block_params) = 0
    THEN Failure("TypeError")   \* reduce() of an empty sequence with no initial value
    ELSE Value({Generator_body(self, inputs, strides_product) :
                strides_product \in {reduce_mul([k \in 1..Len(self.block_params) |->
                                                    self.block_params[k].strides])}})

(* ---------------------------- Discriminator ---------------------------- *)
Discriminator_init(filters, initial_conv_param, bottleneck, version, block_params, channels_first) ==
    [filters |-> filters, initial_conv_param |-> initial_conv_param, bottleneck |-> bottleneck,
     version |-> version, block_params |-> block_params, channels_first |-> channels_first,
     data_format |-> IF channels_first THEN "channels_first" ELSE "channels_last"]

\* mutant of Discriminator_scope: the Discriminator opens the Generator's scope
Discriminator_scope_shared == "generator"

Discriminator_scope == "discriminator"

RECURSIVE Discriminator_stages(_, _, _, _)
Discriminator_stages(self, inputs, k, stages) ==
    IF k > Len(self.block_params) THEN stages
    ELSE Value({Value({Discriminator_stages(self, pool, k + 1,
                                            Append(stages, Stage(k - 1, shl(self.filters, k - 1), layer, pool))) :
                       pool \in {average_pooling2d(LayerOut(layer), 2, 2, self.data_format)}}) :
                layer \in {block_layer(inputs, select_block_fn(self.bottleneck, self.version),
                                       self.block_params[k].blocks, shl(self.filters, k - 1),
                                       self.block_params[k].strides, self.data_format)}})

Discriminator_tail(self, head, inputs, stages) ==
    LET h3 == IF Len(stages) = 0 THEN inputs ELSE stages[Len(stages)].out
        h4 == IF self.version = 2 THEN leaky_relu(h3) ELSE h3
        h5 == global_average_pooling2d(self.data_format, h4)
        h6 == dense(h5, 1)
    IN Result(1, stages, head, h6)

Discriminator_call(self, inputs) ==
    LET h1 == conv2d(inputs, self.filters, self.initial_conv_param.kernel_size,
                     self.initial_conv_param.strides, self.data_format)
    IN Value({Value({Value({Discriminator_tail(self, head, h2, stages) :
                            stages \in {Discriminator_stages(self, h2, 1, <<>>)}}) :
                     h2 \in {IF self.version = 1 THEN leaky_relu(head) ELSE head}}) :
              head \in {h1}})

(* --------------------------- variable store ---------------------------- *)
IsConv(name) == name \in {"conv", "conv1x1", "projection"}

\* the operations a block adds to its input, on the main path and on the shortcut
BlockOps(b) == b.main.ops \o b.shortcut.ops

RECURSIVE LayerConvs(_)
LayerConvs(layer) ==
    IF Len(layer) = 0 THEN 0
    ELSE LayerConvs(SubSeq(layer, 1, Len(layer) - 1)) + Len(SelectSeq(BlockOps(layer[Len(layer)]), IsConv))

RECURSIVE StagesConvs(_)
StagesConvs(stages) ==
    IF Len(stages) = 0 THEN 0
    ELSE StagesConvs(SubSeq(stages, 1, Len(stages) - 1)) + LayerConvs(stages[Len(stages)].layer)

Variable(scope, layer, index, var) == [scope |-> scope, layer |-> layer, index |-> index, var |-> var]

\* names the layers of one Generator call ask the variable store for
Generator_variables(log) ==
    LET n == StagesConvs(log.stages)
    IN {Variable(Generator_scope, "dense", 0, v) : v \in {"kernel", "bias"}} \cup
       {Variable(Generator_scope, "conv2d", k, "kernel") : k \in 0..n} \cup
       {Variable(Generator_scope, "conv2d", n, "bias")}

Discriminator_variables(log) ==
    LET n == StagesConvs(log.stages)
    IN {Variable(Discriminator_scope, "conv2d", k, "kernel") : k \in 0..n} \cup
       {Variable(Discriminator_scope, "dense", 0, v) : v \in {"kernel", "bias"}}

\* tf.variable_scope(scope, reuse): without reuse every name must be new, with
\* reuse every name must exist; the call fails otherwise.
Scoped(log, inputs, names, reuse, store) ==
    IF log.status # "ok"
    THEN [log |-> log, inputs |-> inputs, reuse |-> reuse, used |-> {}, created |-> {}]
    ELSE IF (~reuse /\ names \cap store # {}) \/ (reuse /\ ~(names \subseteq store))
    THEN [log |-> Failure("ValueError"), inputs |-> inputs, reuse |-> reuse, used |-> {}, created |-> {}]
    ELSE [log |-> log, inputs |-> inputs, reuse |-> reuse, used |-> names, created |-> names \ store]

(* -------------------------------- state -------------------------------- *)
VARIABLES generator, discriminator, variables, gen, dis

vars == <<generator, discriminator, variables, gen, dis>>

BlockParams == [blocks : BlockCounts, strides : 1..MaxStride]

StageLists == UNION {[1..n -> BlockParams] : n \in 0..MaxStages}

NetworkConfigs ==
    [image_size : ImageSizes, filters : FilterSet, bottleneck : BOOLEAN, version : VersionSet,
     block_params : StageLists, final_conv_param : ConvParams, initial_conv_param : ConvParams,
     channels_first : BOOLEAN]

\* image_size=(64,64), base_filters=64, 4 stages each stride=2, bottleneck=false, version=2
ScenarioConfigs ==
    [image_size : {<<64, 64>>}, filters : {64}, bottleneck : {FALSE}, version : {2},
     block_params : {[k \in 1..4 |-> [blocks |-> b, strides |-> 2]] : b \in BlockCounts},
     final_conv_param : {[kernel_size |-> 3, strides |-> 1]},
     initial_conv_param : {[kernel_size |-> 3, strides |-> 1]},
     channels_first : BOOLEAN]

NotCalled == [log |-> Failure("none"), inputs |-> <<>>, reuse |-> FALSE, used |-> {}, created |-> {}]

Init ==
    \E c \in NetworkConfigs \cup ScenarioConfigs :
        /\ generator = Generator_init(c.image_size, c.filters, c.bottleneck, c.version, c.block_params,
                                      c.final_conv_param, c.channels_first)
        /\ discriminator = Discriminator_init(c.filters, c.initial_conv_param, c.bottleneck, c.version,
                                              c.block_params, c.channels_first)
        /\ variables = {}
        /\ gen = NotCalled
        /\ dis = NotCalled

Latents == {[shape |-> <<b, d>>, ops |-> <<>>] : b \in BatchSizes, d \in LatentDims}

Images == {[shape |-> Shape4(b, generator.image_size[1], generator.image_size[2], 3,
                             discriminator.data_format),
            ops |-> <<>>] : b \in BatchSizes}

\* Generator.__call__(inputs, training, reuse); the caller builds the graph with
\* reuse=False and passes reuse=True on every later call.  The training flag is
\* handed to the blocks and read by none of them.
GeneratorCall ==
    \E inputs \in Latents, reuse \in BOOLEAN :
        /\ reuse = (gen.log.status = "ok")
        /\ \E log \in {Generator_call(generator, inputs)} :
           \E names \in {Generator_variables(log)} :
           \E call \in {Scoped(log, inputs, names, reuse, variables)} :
              /\ gen' = call
              /\ variables' = variables \cup call.created
              /\ UNCHANGED <<generator, discriminator, dis>>

\* Discriminator.__call__(inputs, training, reuse) on a batch of images
DiscriminatorCall ==
    \E inputs \in Images, reuse \in BOOLEAN :
        /\ reuse = (dis.log.status = "ok")
        /\ \E log \in {Discriminator_call(discriminator, inputs)} :
           \E names \in {Discriminator_variables(log)} :
           \E call \in {Scoped(log, inputs, names, reuse, variables)} :
              /\ dis' = call
              /\ variables' = variables \cup call.created
              /\ UNCHANGED <<generator, discriminator, gen>>

Next == GeneratorCall \/ DiscriminatorCall

Spec == Init /\ [][Next]_vars


(* ------------------------------- claims -------------------------------- *)
GenCalled == gen.log.status # "none"
DisCalled == dis.log.status # "none"
GenOk == gen.log.status = "ok"
DisOk == dis.log.status = "ok"

StageCount == Len(generator.block_params)
StridesProduct == reduce_mul([k \in 1..StageCount |-> generator.block_params[k].strides])
Divides(d, n) == n % d = 0

\* every residual block of a call, with its stage and its position in the stage
BlocksOf(call) ==
    UNION {{[stage |-> k, unit |-> u, block |-> call.log.stages[k].layer[u]] :
               u \in 1..Len(call.log.stages[k].layer)} : k \in 1..Len(call.log.stages)}

AllBlocks == BlocksOf(gen) \cup BlocksOf(dis)

Projected(b) == b.shortcut.ops # <<>>

ValidConfig ==
    /\ StageCount >= 1
    /\ \A k \in 1..StageCount : generator.block_params[k].strides >= 1
    /\ Divides(StridesProduct, generator.image_size[1])
    /\ Divides(StridesProduct, generator.image_size[2])

\* C1: for every valid config the Generator's output on a batch of B latents has
\* shape (B, H, W, 3), or (B, 3, H, W) for channels_first.
C1_GeneratorOutputShape ==
    (GenCalled /\ ValidConfig) =>
        /\ GenOk
        /\ gen.log.outputs.shape =
              Shape4(gen.inputs.shape[1], generator.image_size[1], generator.image_size[2], 3,
                     generator.data_format)

RoundTrip(n) == n = (n \div StridesProduct) * pow2(StageCount)

\* C2: a config the Generator accepts satisfies the round-trip resolution law in
\* both dimensions; a config that violates it is rejected (whatever the exception
\* raised) and yields no network.
C2_RoundTripLaw ==
    (GenCalled /\ StageCount >= 1) =>
        (RoundTrip(generator.image_size[1]) /\ RoundTrip(generator.image_size[2])) \/ ~GenOk

StageDepth(call, k, filters) ==
    /\ call.log.stages[k].filters = filters
    /\ Channels(LayerOut(call.log.stages[k].layer),
                IF generator.channels_first THEN "channels_first" ELSE "channels_last")
          = IF generator.bottleneck THEN 4 * filters ELSE filters

\* C3: stage i of the Generator is given filters = base_filters / 2^i (integer
\* division) and stage i of the Discriminator base_filters * 2^i; the stage's output
\* has that channel depth for basic blocks and 4 times it for bottleneck blocks.
C3_ChannelSchedule ==
    /\ \A k \in 1..Len(gen.log.stages) : StageDepth(gen, k, generator.filters \div pow2(k - 1))
    /\ \A k \in 1..Len(dis.log.stages) : StageDepth(dis, k, discriminator.filters * pow2(k - 1))

C3_Witness ==
    /\ GenOk /\ DisOk
    /\ Len(gen.log.stages) = 2 /\ Len(dis.log.stages) = 2
    /\ generator.bottleneck
    /\ generator.filters % 2 = 1

\* C4: at the additive merge of every residual block of both networks the shortcut
\* and the main path have the same shape, and a block without projection returns
\* the shape it was given.
C4_ShortcutShape ==
    \A e \in AllBlocks :
        /\ e.block.shortcut.shape = e.block.main.shape
        /\ ~Projected(e.block) => e.block.in = e.block.out.shape
        /\ e.unit > 1 => ~Projected(e.block)

C4_Witness ==
    /\ \E e \in BlocksOf(gen) : Projected(e.block) /\ e.block.in # e.block.out.shape
    /\ \E e \in BlocksOf(dis) : e.unit = 1 /\ ~Projected(e.block)
    /\ \E e \in BlocksOf(dis) : e.unit = 2 /\ ~Projected(e.block)

IsScenario ==
    /\ generator.image_size = <<64, 64>> /\ discriminator.filters = 64
    /\ Len(discriminator.block_params) = 4
    /\ \A k \in 1..4 : discriminator.block_params[k].strides = 2
    /\ ~discriminator.bottleneck /\ discriminator.version = 2

ScenarioStages(h, w, c) ==
    LET df == discriminator.data_format
        batch == dis.inputs.shape[1]
    IN /\ dis.inputs.shape = Shape4(batch, 64, 64, 3, df)
       /\ dis.log.head.shape = Shape4(batch, 64, 64, 64, df)
       /\ dis.log.stages[4].out.shape = Shape4(batch, h, w, c, df)
       /\ dis.log.outputs.shape = <<batch, 1>>

C6_EmptyStagesRejected ==
    StageCount = 0 => (GenCalled => ~GenOk) /\ (DisCalled => ~DisOk)

\* C7: a version outside {1, 2} is rejected by the Generator and by the
\* Discriminator (whatever the exception raised): no network is produced from it.
C7_VersionRejected ==
    (generator.version \notin {1, 2} /\ StageCount >= 1) => (GenCalled => ~GenOk) /\ (DisCalled => ~DisOk)

\* C8: the Generator's parameters all live under "generator", the Discriminator's
\* under "discriminator", the two networks share none, and a call with reuse=True
\* creates none.
C8_ScopeNonCollision ==
    /\ \A v \in gen.used : v.scope = "generator"
    /\ \A v \in dis.used : v.scope = "discriminator"
    /\ gen.used \cap dis.used = {}
    /\ gen.used \cup dis.used \subseteq variables
    /\ GenCalled => (gen.log.status \in {"ok", "TypeError", "InvalidArgumentError"})
    /\ DisOk \/ ~DisCalled
    /\ gen.reuse => gen.created = {}
    /\ dis.reuse => dis.created = {}

C8_Witness ==
    /\ GenOk /\ DisOk /\ gen.reuse /\ dis.reuse
    /\ gen.used # {} /\ dis.used # {} /\ variables = gen.used \cup dis.used

\* C9: a v1 block ends with the activation after the add and takes its shortcut,
\* identity or projection, from the un-activated input; a v2 block starts with the
\* activation, projects the activated input, takes the identity shortcut from the
\* un-activated input and ends with the add.
C9_ActivationPlacement ==
    \A e \in AllBlocks :
        LET t == e.block.tail
            sc == e.block.shortcut.ops
        IN IF generator.version = 1
           THEN /\ t[Len(t)] = "leaky_relu" /\ t[Len(t) - 1] = "add"
                /\ t[1] # "leaky_relu"
                /\ sc \in {<<>>, <<"projection">>}
           ELSE /\ t[Len(t)] = "add"
                /\ t[1] = "leaky_relu"
                /\ sc \in {<<>>, <<"leaky_relu", "projection">>}

C9_Witness ==
    /\ generator.version = 2 /\ generator.bottleneck
    /\ \E e \in BlocksOf(gen) : Projected(e.block)
    /\ \E e \in BlocksOf(dis) : ~Projected(e.block)

\* C10: when the stride product divides both image dimensions the dense width is
\* base_filters * H0 * W0, the element count of the (H0, W0, base_filters) tensor.
C10_DenseWidth ==
    (GenCalled /\ StageCount >= 1 /\ Divides(StridesProduct, generator.image_size[1])
               /\ Divides(StridesProduct, generator.image_size[2])) =>
        /\ GenOk
        /\ gen.log.units = generator.filters * (generator.image_size[1] \div StridesProduct)
                                             * (generator.image_size[2] \div StridesProduct)
        /\ LET first == gen.log.stages[1].layer[1].in
           IN first[2] * first[3] * first[4] = gen.log.units

C10_Witness ==
    /\ GenOk /\ StageCount = 2 /\ StridesProduct = 4 /\ generator.image_size = <<4, 8>>
    /\ generator.filters = 3

====
